---- MODULE Spec2Model ----
(***************************************************************************)
(* heyserv: the tool-selection dispatcher (intelligentChatTool.handler),   *)
(* the chat orchestrator (callLLMWithTools behind POST /chat) and its      *)
(* streaming variant (callLLMWithToolsStream behind POST /chat/stream).    *)
(*                                                                         *)
(* Strings are modelled by what the code does with them:                   *)
(*  - a user message is a sequence of lower-case words plus two flags      *)
(*    saying whether the raw text carried upper-case letters and           *)
(*    surrounding blanks; trim() and toLowerCase() clear the flags;        *)
(*  - an email body is a sequence of tokens of the classes the regular     *)
(*    expression of sanitizeEmailBody tells apart;                         *)
(*  - a text produced by the LLM is a record saying whether JSON.parse     *)
(*    accepts it and, if so, what it parses to.                            *)
(***************************************************************************)
EXTENDS Integers, Sequences, FiniteSets, TLC

\* the dispatcher intelligentChatTool.handler
VARIABLES
    ic_pc,             \* "idle", "rejected", "routing", "awaitTool", "awaitLLM", "done"
    ic_message,        \* validatedInput.message, the raw message
    ic_context,        \* validatedInput.currentContext
    ic_draftBody,      \* currentDraft.body, once the handler has read it
    ic_selectedEmail,  \* what find() returned, once the handler has looked
    ic_calls,          \* the tool handlers and callLLM invoked, in order
    ic_toolResult,     \* "none", or whether the awaited tool "returned" or "threw"
    ic_aiResponse,     \* "none", or how the general chat's callLLM settled:
                       \* "throws", or a text that is "prose" or "json"
    ic_result          \* the response the handler returned

ic_vars ==
    <<ic_pc, ic_message, ic_context, ic_draftBody, ic_selectedEmail, ic_calls,
      ic_toolResult, ic_aiResponse, ic_result>>

\* one POST /chat turn through callLLMWithTools
VARIABLES
    chat_pc,           \* "idle", "awaitLLM", "loop", "awaitTool", "awaitFollowUp", "responded"
    chat_message,      \* response.choices[0].message
    chat_toolsUsed,    \* the local array toolsUsed
    chat_llmCalls,     \* completion requests issued so far
    chat_toolCalls,    \* tools/call requests issued so far
    chat_toolOutcome,  \* how the latest tools/call request settled
    chat_return,       \* what callLLMWithTools returned
    chat_http          \* what the handler sent

chat_vars == <<chat_pc, chat_message, chat_toolsUsed, chat_llmCalls, chat_toolCalls,
               chat_toolOutcome, chat_return, chat_http>>

\* one POST /chat/stream request through callLLMWithToolsStream
VARIABLES
    st_pc,            \* "idle", "awaitStream", "streaming", "awaitTool",
                      \* "awaitFollowUp", "followUp", "closed"
    st_started,       \* res.writeHead has been called
    st_status,        \* the HTTP status sent, 0 before any
    st_events,        \* the types of the events written to res, in order
    st_functionCall,  \* functionCall.name, "none" while functionCall is null
    st_buffer,        \* functionCallBuffer: "empty", "json" or "notJson"
    st_toolsUsed,     \* the local array toolsUsed
    st_chunks,        \* chunks read from the completion streams so far
    st_thrown,        \* exceptions raised while serving the request
    st_followUpCall   \* a chunk of the second stream carried delta.function_call

st_vars == <<st_pc, st_started, st_status, st_events, st_functionCall, st_buffer,
             st_toolsUsed, st_chunks, st_thrown, st_followUpCall>>

\* the LLM responses and tool results given to both orchestrators
VARIABLES
    eq_script         \* the responses in the order they are asked for

eq_vars == <<eq_script>>

\* one call of an email tool's handler (tools/call)
VARIABLES
    tc_pc,            \* "idle", "awaitLLM", "returned", "threw"
    tc_call,          \* the tool called and what the handler reads of its arguments
    tc_llm,           \* what the handler's callLLM produced
    tc_result         \* what the handler returned

tc_vars == <<tc_pc, tc_call, tc_llm, tc_result>>

\* the stored profile of one userId (ProfileService over the database)
VARIABLES
    pf_row,           \* the user_profiles row of the userId exists
    pf_sections,      \* per preference table: "none", "default" rows or "custom" rows
    pf_result         \* the last ProfileService call and what it gave

pf_vars == <<pf_row, pf_sections, pf_result>>

\* two POST /chat turns served at the same time
VARIABLES
    cc_turn,          \* per turn: where it stands, what the LLM asked for, its local
                      \* messages and toolsUsed, what findUnique gave the tool,
                      \* the userPreferences the tool loaded, and what it returned
    cc_profiles       \* the userIds that have a row in user_profiles

cc_vars == <<cc_turn, cc_profiles>>

\* one tools/call request to POST /mcp of the JSON-RPC server (index.ts)
VARIABLES
    rpc_pc,           \* "idle", "awaitHandler", "responded"
    rpc_request,      \* params.name and params.arguments
    rpc_mapped,       \* mappedArgs, what tool.handler is called with
    rpc_response      \* the HTTP status, the JSON-RPC error code, and what threw

rpc_vars == <<rpc_pc, rpc_request, rpc_mapped, rpc_response>>

vars == <<ic_vars, chat_vars, st_vars, eq_vars, tc_vars, pf_vars, cc_vars, rpc_vars>>

(* ------------------------------ bounds -------------------------------- *)

\* longest email body, in tokens
MaxBodyLen == 5

\* longest draft body, in tokens
MaxDraftLen == 3

(* --------------------------- sequence helpers ------------------------- *)

SeqsUpTo(S, n) == UNION {[1..k -> S] : k \in 0..n}

Last(s) == s[Len(s)]

(* ------------------- email bodies, sanitizeEmailBody ------------------ *)

\* token classes of a body: the letters "on" (any case), one blank, one line
\* break, the text "wrote:" (any case), any other non-blank text
BodyTokens == {"On", "sp", "nl", "wrote:", "x"}

Bodies == SeqsUpTo(BodyTokens, MaxBodyLen)

\* \s of the regular expressions, and what trim() removes ("nn" is an empty
\* line, two line breaks)
IsSpace(t) == t \in {"sp", "nl", "nn"}

\* . of the regular expression (no s flag: every character but a line break)
IsDot(t) == t \notin {"nl", "nn"}

\* \s* and .* over the positions from..to of body
AllSpace(body, from, to) == \A k \in from..to : IsSpace(body[k])

AllDot(body, from, to) == \A k \in from..to : IsDot(body[k])

\* /On\s+.*\s+wrote:[\s\S]*$/i matches body from position i:
\* "On", blanks i+1..a, any non-line-break text a+1..b, blanks b+1..c, "wrote:"
QuotedMatchesAt(body, i) ==
    /\ i \in 1..Len(body)
    /\ body[i] = "On"
    /\ \E a \in (i + 1)..Len(body) : \E b \in a..Len(body) : \E c \in (b + 1)..Len(body) :
          /\ AllSpace(body, i + 1, a)
          /\ AllDot(body, a + 1, b)
          /\ AllSpace(body, b + 1, c)
          /\ c + 1 <= Len(body)
          /\ body[c + 1] = "wrote:"

\* body.match(...).index, 1-based; 0 when there is no match
QuotedMatchIndex(body) ==
    IF \E i \in 1..Len(body) : QuotedMatchesAt(body, i)
    THEN CHOOSE i \in 1..Len(body) :
            /\ QuotedMatchesAt(body, i)
            /\ \A j \in 1..(i - 1) : ~QuotedMatchesAt(body, j)
    ELSE 0

RECURSIVE TrimStart(_)
TrimStart(s) == IF s # <<>> /\ IsSpace(Head(s)) THEN TrimStart(Tail(s)) ELSE s

RECURSIVE TrimEnd(_)
TrimEnd(s) ==
    IF s # <<>> /\ IsSpace(Last(s)) THEN TrimEnd(SubSeq(s, 1, Len(s) - 1)) ELSE s

\* String.prototype.trim
Trim(s) == TrimEnd(TrimStart(s))

\* the quoted block is left in place
sanitizeEmailBody_Unstripped(body) == body

sanitizeEmailBody(body) ==
    LET index == QuotedMatchIndex(body)
    IN IF index # 0 THEN Trim(SubSeq(body, 1, index - 1)) ELSE body

(* ------------------------------ messages ------------------------------ *)

\* the word sequences users send
MessageWords ==
    { <<>>,
      <<"hello">>,
      <<"make", "it", "shorter">>,
      <<"shorter", "it", "make">>,
      <<"draft", "reply">>,
      <<"summarize">>,
      <<"summarize", "email">>,
      <<"analyze">>,
      <<"analyze", "email">> }

\* a raw message: its words, whether it has upper-case letters, whether it
\* has blanks around it
Messages ==
    {m \in [words : MessageWords, upper : BOOLEAN, padded : BOOLEAN] :
        m.upper => m.words # <<>>}

NoMessage == [words |-> <<>>, upper |-> FALSE, padded |-> FALSE]

\* z.string().min(1): the raw text has at least one character
NonEmptyString(m) == m.words # <<>> \/ m.padded

\* validatedInput.message.trim().toLowerCase()
TrimLower(m) == [words |-> m.words, upper |-> FALSE, padded |-> FALSE]

Literal(words) == [words |-> words, upper |-> FALSE, padded |-> FALSE]

ModifyVerbs ==
    {"change", "update", "modify", "revise", "rewrite", "make", "adjust",
     "improve", "enhance", "fix", "correct"}

ModifyObjects ==
    {"draft", "reply", "response", "email", "tone", "style", "format", "it",
     "this", "that"}

\* /\b(verb)\b.*\b(object)\b/i .test(message)
modifyDraftPattern(m) ==
    \E i \in 1..Len(m.words) : \E j \in 1..Len(m.words) :
        /\ i < j
        /\ m.words[i] \in ModifyVerbs
        /\ m.words[j] \in ModifyObjects

(* ------------------------------ LLM texts ----------------------------- *)

\* an optional boolean field of a JSON object
Tri == {"absent", "true", "false"}

\* what a JSON text of the LLM parses to, as far as the chat code reads it
JsonValues ==
    [response : {"string", "missing"},
     shouldPerformAction : Tri,
     actionToPerform : {"absent", "summarizeEmail", "draftReply"},
     suggestedActions : {"absent", "empty", "some"}]

NoJson ==
    [response |-> "missing", shouldPerformAction |-> "absent",
     actionToPerform |-> "absent", suggestedActions |-> "absent"]

\* the outcome of one callLLM: it throws, or returns a text that JSON.parse
\* rejects ("prose") or accepts ("json")
LLMReplies ==
    {[kind |-> "throws", json |-> NoJson], [kind |-> "prose", json |-> NoJson]}
    \cup {[kind |-> "json", json |-> j] : j \in JsonValues}

\* the replies a tool's own callLLM can get; the tools read no field of the
\* JSON here
ToolLLMReplies ==
    {[kind |-> k, json |-> NoJson] : k \in {"throws", "prose", "json"}}

(* --------------------------- action envelopes ------------------------- *)

Envelope(response, should, action, suggested) ==
    [response |-> response, shouldPerformAction |-> should,
     actionToPerform |-> action, suggestedActions |-> suggested]

NoEnvelope == Envelope("", "absent", "absent", "absent")

\* what a tool handler does: throws, or returns content[0].text (of which
\* the model keeps whether it is JSON) and an envelope
Throws == [threw |-> TRUE, textIsJson |-> FALSE, envelope |-> NoEnvelope]

Returns(textIsJson, envelope) ==
    [threw |-> FALSE, textIsJson |-> textIsJson, envelope |-> envelope]

summarizeEmailHandler(text, llm) ==
    IF text = <<>> \/ llm.kind = "throws"
    THEN Throws
    ELSE Returns(FALSE,
                 Envelope("I've summarized the email for you.", "true",
                          "summarizeEmail", "absent"))

draftReplyHandler(email, llm) ==
    IF email = <<>> \/ llm.kind = "throws"
    THEN Throws
    ELSE Returns(llm.kind = "json",
                 Envelope("reply", "true", "draftReply", "absent"))

rewriteReplyHandler(draft, instruction, llm) ==
    IF draft = <<>> \/ ~NonEmptyString(instruction) \/ llm.kind = "throws"
    THEN Throws
    ELSE Returns(FALSE,
                 Envelope("I've rewritten the email draft for you.", "true",
                          "rewriteReply", "absent"))

\* emailContent is {subject, sender, body}; headerValid says that the subject
\* is not empty and the sender is an email address (read from the selected
\* email when the handler validates)
analyzeEmailHandler(headerValid, body, llm) ==
    IF ~headerValid \/ body = <<>>
    THEN Throws
    ELSE Returns(TRUE, Envelope("analysis", "absent", "absent", "absent"))

(* ============ the dispatcher: intelligentChatTool.handler ============= *)

DraftTokens == {"p", "nn"}

DraftBodies == SeqsUpTo(DraftTokens, MaxDraftLen)

\* currentContext: the draft (absent, an object, or a string, which
\* CurrentContextSchema does not accept), the ids of threadEmails, and
\* selectedEmailId
Contexts ==
    [currentDraft : {"absent", "object", "string"},
     threadEmails : {<<>>, <<"e2">>, <<"e2", "e1">>},
     selectedEmailId : {"absent", "e1"}]

NoContext == [currentDraft |-> "absent", threadEmails |-> <<>>, selectedEmailId |-> "absent"]

NoSelectedEmail == [found |-> FALSE, body |-> <<>>]

Call(callee, text, instruction) ==
    [callee |-> callee, text |-> text, instruction |-> instruction]

\* threadEmails.find((email) => email.id === selectedEmailId) finds one
EmailFound(context) ==
    \E i \in 1..Len(context.threadEmails) :
        context.threadEmails[i] = context.selectedEmailId

\* currentDraftBody.match(/\n\n([\s\S]+)$/): the first empty line that has
\* text after it; bodyMatch[1].trim(), or the whole body without a match
DraftBodyText(currentDraftBody) ==
    IF \E i \in 1..(Len(currentDraftBody) - 1) : currentDraftBody[i] = "nn"
    THEN LET i == CHOOSE k \in 1..(Len(currentDraftBody) - 1) :
                     /\ currentDraftBody[k] = "nn"
                     /\ \A j \in 1..(k - 1) : currentDraftBody[j] # "nn"
         IN Trim(SubSeq(currentDraftBody, i + 1, Len(currentDraftBody)))
    ELSE currentDraftBody

\* the tool an exact command names, "none" for any other message
ExactCommandTool(message) ==
    IF message = Literal(<<"draft", "reply">>) THEN "draftReply"
    ELSE IF message \in {Literal(<<"summarize">>), Literal(<<"summarize", "email">>)}
         THEN "summarizeEmail"
    ELSE IF message \in {Literal(<<"analyze">>), Literal(<<"analyze", "email">>)}
         THEN "analyzeEmail"
    ELSE "none"

isModifyRequest(message, context) ==
    modifyDraftPattern(message) /\ context.currentDraft # "absent"

FallbackResponse ==
    Envelope("I'm sorry, I encountered an error processing your request. Please try again.",
             "false", "absent", "empty")

\* IntelligentChatResponseSchema.parse accepts the parsed LLM JSON
ResponseSchemaAccepts(json) == json.response = "string"

IC_Init ==
    /\ ic_pc = "idle"
    /\ ic_message = NoMessage
    /\ ic_context = NoContext
    /\ ic_draftBody = <<>>
    /\ ic_selectedEmail = NoSelectedEmail
    /\ ic_calls = <<>>
    /\ ic_toolResult = "none"
    /\ ic_aiResponse = "none"
    /\ ic_result = NoEnvelope

\* the handler is called; IntelligentChatInputSchema.parse throws on an empty
\* message and on a draft that is no object
IC_Receive ==
    /\ UNCHANGED <<chat_vars, st_vars, eq_vars, tc_vars, pf_vars, cc_vars, rpc_vars>>
    /\ ic_pc = "idle"
    /\ \E m \in Messages : \E c \in Contexts :
          /\ ic_message' = m
          /\ ic_context' = c
          /\ ic_pc' = IF NonEmptyString(m) /\ c.currentDraft # "string"
                      THEN "routing" ELSE "rejected"
    /\ UNCHANGED ic_aiResponse
    /\ UNCHANGED <<ic_draftBody, ic_selectedEmail, ic_calls, ic_toolResult, ic_result>>

\* the modify-draft branch up to the call of rewriteReplyTool.handler
IC_Modify ==
    /\ UNCHANGED <<chat_vars, st_vars, eq_vars, tc_vars, pf_vars, cc_vars, rpc_vars>>
    /\ ic_pc = "routing"
    /\ isModifyRequest(TrimLower(ic_message), ic_context)
    /\ \E body \in DraftBodies :
          /\ ic_draftBody' = body
          /\ ic_calls' = Append(ic_calls,
                Call("rewriteReply", DraftBodyText(body), TrimLower(ic_message)))
    /\ ic_pc' = "awaitTool"
    /\ UNCHANGED ic_aiResponse
    /\ UNCHANGED <<ic_message, ic_context, ic_selectedEmail, ic_toolResult, ic_result>>

\* "draft reply", "summarize (email)", "analyze (email)" with the selected
\* email in the thread, up to the call of the tool's handler
IC_ExactCommand ==
    /\ UNCHANGED <<chat_vars, st_vars, eq_vars, tc_vars, pf_vars, cc_vars, rpc_vars>>
    /\ ic_pc = "routing"
    /\ ~isModifyRequest(TrimLower(ic_message), ic_context)
    /\ ExactCommandTool(TrimLower(ic_message)) # "none"
    /\ EmailFound(ic_context)
    /\ \E body \in Bodies :
          /\ ic_selectedEmail' = [found |-> TRUE, body |-> body]
          /\ ic_calls' = Append(ic_calls,
                Call(ExactCommandTool(TrimLower(ic_message)), sanitizeEmailBody(body), NoMessage))
    /\ ic_pc' = "awaitTool"
    /\ UNCHANGED ic_aiResponse
    /\ UNCHANGED <<ic_message, ic_context, ic_draftBody, ic_toolResult, ic_result>>

\* the same commands with no thread email of that id: parsedResponse stays
\* undefined, IntelligentChatResponseSchema.parse throws, the catch answers
IC_NoSelectedEmail ==
    /\ UNCHANGED <<chat_vars, st_vars, eq_vars, tc_vars, pf_vars, cc_vars, rpc_vars>>
    /\ ic_pc = "routing"
    /\ ~isModifyRequest(TrimLower(ic_message), ic_context)
    /\ ExactCommandTool(TrimLower(ic_message)) # "none"
    /\ ~EmailFound(ic_context)
    /\ ic_result' = FallbackResponse
    /\ ic_pc' = "done"
    /\ UNCHANGED ic_aiResponse
    /\ UNCHANGED <<ic_message, ic_context, ic_draftBody, ic_selectedEmail, ic_calls,
                   ic_toolResult>>

\* every other message: callLLM(prompt)
IC_Chat ==
    /\ UNCHANGED <<chat_vars, st_vars, eq_vars, tc_vars, pf_vars, cc_vars, rpc_vars>>
    /\ ic_pc = "routing"
    /\ ~isModifyRequest(TrimLower(ic_message), ic_context)
    /\ ExactCommandTool(TrimLower(ic_message)) = "none"
    /\ ic_calls' = Append(ic_calls, Call("callLLM", <<>>, NoMessage))
    /\ ic_pc' = "awaitLLM"
    /\ UNCHANGED ic_aiResponse
    /\ UNCHANGED <<ic_message, ic_context, ic_draftBody, ic_selectedEmail, ic_toolResult,
                   ic_result>>

\* what the called tool's handler does with its arguments and its LLM reply
ToolOutcome(call, headerValid, llm) ==
    CASE call.callee = "rewriteReply" ->
            rewriteReplyHandler(call.text, call.instruction, llm)
      [] call.callee = "draftReply" -> draftReplyHandler(call.text, llm)
      [] call.callee = "summarizeEmail" -> summarizeEmailHandler(call.text, llm)
      [] call.callee = "analyzeEmail" ->
            analyzeEmailHandler(headerValid, call.text, llm)

\* the handler from the tool's return to its own return
ResponseAfterTool(callee, outcome) ==
    IF outcome.threw THEN FallbackResponse
    ELSE CASE callee = "rewriteReply" ->
                \* JSON.parse(rewriteResult.content[0].text)
                IF outcome.textIsJson
                THEN Envelope("I've updated the draft based on your instructions.",
                              "true", "draftReply", "absent")
                ELSE FallbackResponse
           [] callee = "draftReply" ->
                Envelope("Here's a draft reply to the selected email.",
                         "true", "draftReply", "absent")
           [] callee = "summarizeEmail" ->
                Envelope("Here's a summary of the selected email.",
                         "true", "summarizeEmail", "absent")
           [] callee = "analyzeEmail" ->
                Envelope("Here's an analysis of the selected email.",
                         "true", "analyzeEmail", "absent")

IC_ToolSettles ==
    /\ UNCHANGED <<chat_vars, st_vars, eq_vars, tc_vars, pf_vars, cc_vars, rpc_vars>>
    /\ ic_pc = "awaitTool"
    /\ \E llm \in ToolLLMReplies : \E headerValid \in BOOLEAN :
          LET outcome == ToolOutcome(Last(ic_calls), headerValid, llm)
          IN /\ ic_toolResult' = IF outcome.threw THEN "threw" ELSE "returned"
             /\ ic_result' = ResponseAfterTool(Last(ic_calls).callee, outcome)
    /\ ic_pc' = "done"
    /\ UNCHANGED ic_aiResponse
    /\ UNCHANGED <<ic_message, ic_context, ic_draftBody, ic_selectedEmail, ic_calls>>

\* a general chat branch that lets the JSON.parse error reach the catch
ResponseAfterChat_Unwrapped(llm) ==
    IF llm.kind = "json" /\ ResponseSchemaAccepts(llm.json)
    THEN Envelope("llm json", llm.json.shouldPerformAction,
                  llm.json.actionToPerform, llm.json.suggestedActions)
    ELSE FallbackResponse

\* the general chat branch from the LLM's reply to the handler's return
ResponseAfterChat(llm) ==
    IF llm.kind = "throws" THEN FallbackResponse
    ELSE IF llm.kind = "prose" THEN Envelope("llm text", "false", "absent", "empty")
    ELSE IF ResponseSchemaAccepts(llm.json)
         THEN Envelope("llm json", llm.json.shouldPerformAction,
                       llm.json.actionToPerform, llm.json.suggestedActions)
    ELSE FallbackResponse

IC_LLMSettles ==
    /\ UNCHANGED <<chat_vars, st_vars, eq_vars, tc_vars, pf_vars, cc_vars, rpc_vars>>
    /\ ic_pc = "awaitLLM"
    /\ \E llm \in LLMReplies :
          /\ ic_aiResponse' = llm.kind
          /\ ic_result' = ResponseAfterChat(llm)
    /\ ic_pc' = "done"
    /\ UNCHANGED <<ic_message, ic_context, ic_draftBody, ic_selectedEmail, ic_calls,
                   ic_toolResult>>

IC_Next ==
    \/ IC_Receive
    \/ IC_Modify
    \/ IC_ExactCommand
    \/ IC_NoSelectedEmail
    \/ IC_Chat
    \/ IC_ToolSettles
    \/ IC_LLMSettles

(* ============ the orchestrator callLLMWithTools and POST /chat ========= *)

\* most tool calls of one turn the model follows; the code's loop has no cap
MaxRounds == 3

\* the functions the LLM names: two offered tools and a name no tool has
FunctionNames == {"draftReply", "analyzeEmail", "noSuchTool"}

\* message.content: null, prose, prose holding "suggestedActions: [...]" with
\* a JSON array, the same with text JSON.parse rejects
Contents == {"null", "prose", "actions", "badActions"}

ChatMessages ==
    [function_call : FunctionNames \cup {"none"}, argumentsAreJson : BOOLEAN, content : Contents]

NoChatMessage == [function_call |-> "none", argumentsAreJson |-> TRUE, content |-> "null"]

\* what tools/call answers for a function name: a result with the action
\* protocol, a result without it, or a JSON-RPC error
ToolOutcomes(functionName) ==
    CASE functionName = "draftReply" -> {"action", "error"}
      [] functionName = "analyzeEmail" -> {"plain", "error"}
      [] functionName = "noSuchTool" -> {"error"}

ToolRecord(name, success, error) == [name |-> name, success |-> success, error |-> error]

\* `Error calling tool ${functionName}: ${error}`
ErrorCallingTool(functionName, error) ==
    [prefix |-> "Error calling tool", name |-> functionName, error |-> error]

NoText == [prefix |-> "", name |-> "", error |-> ""]

\* the name of every record, repeats included
uniqueToolNames_Every(toolsUsed) == [i \in 1..Len(toolsUsed) |-> toolsUsed[i].name]

\* [...new Set(toolsUsed.map((t) => t.name))]: the names in the order of
\* their first record
RECURSIVE uniqueToolNames(_)
uniqueToolNames(toolsUsed) ==
    IF toolsUsed = <<>>
    THEN <<>>
    ELSE LET earlier == uniqueToolNames(SubSeq(toolsUsed, 1, Len(toolsUsed) - 1))
             name == Last(toolsUsed).name
         IN IF \E i \in 1..Len(earlier) : earlier[i] = name
            THEN earlier
            ELSE Append(earlier, name)

\* debuggingInfo of a return that carries toolsUsed
DebuggingInfo(toolsUsed) ==
    [toolsExecuted |-> Len(toolsUsed),
     toolsList |-> uniqueToolNames(toolsUsed),
     executionSummary |->
        [i \in 1..Len(toolsUsed) |-> <<toolsUsed[i].name, toolsUsed[i].success>>]]

NoDebuggingInfo == [toolsExecuted |-> 0, toolsList |-> <<>>, executionSummary |-> <<>>]

\* what callLLMWithTools hands back: a string, an object, or nothing yet
ChatReturn(kind, text, content, should, action, suggested, hasToolsUsed, toolsUsed) ==
    [kind |-> kind, text |-> text, content |-> content, shouldPerformAction |-> should,
     actionToPerform |-> action, suggestedActions |-> suggested,
     hasToolsUsed |-> hasToolsUsed, toolsUsed |-> toolsUsed,
     debuggingInfo |-> IF hasToolsUsed THEN DebuggingInfo(toolsUsed) ELSE NoDebuggingInfo]

NoReturn == ChatReturn("none", NoText, "null", "absent", "absent", "absent", FALSE, <<>>)

\* a catch that records the failure and goes round the loop again
CatchToolError_Retry(functionName, toolsUsed, error) ==
    [pc |-> "loop",
     toolsUsed |-> Append(toolsUsed, ToolRecord(functionName, FALSE, error)),
     return |-> NoReturn]

\* the catch of the loop: record the failure, return the error string
CatchToolError(functionName, toolsUsed, error) ==
    [pc |-> "responded",
     toolsUsed |-> Append(toolsUsed, ToolRecord(functionName, FALSE, error)),
     return |-> ChatReturn("string", ErrorCallingTool(functionName, error), "null",
                           "absent", "absent", "absent", FALSE, <<>>)]

\* the return when the tool result carries the action protocol
ActionProtocolReturn(toolsUsed) ==
    ChatReturn("object", NoText, "tool content", "true", "action", "absent", TRUE, toolsUsed)

\* an extraction that hands on whatever the marker is followed by
ExtractSuggestedActions_Unparsed(content) ==
    IF content \in {"actions", "badActions"} THEN "some" ELSE "absent"

\* finalResponse.match(/suggestedActions:\s*(\[.*?\])/s) and JSON.parse of it
ExtractSuggestedActions(content) == IF content = "actions" THEN "some" ELSE "absent"

\* the return after the loop
FinalReturn(message, toolsUsed) ==
    ChatReturn("object", NoText,
               IF message.content = "null" THEN "No response generated" ELSE message.content,
               "absent", "absent", ExtractSuggestedActions(message.content),
               toolsUsed # <<>>, toolsUsed)

HttpResponse(status, response, should, action, suggested, hasToolsUsed, toolsUsed) ==
    [status |-> status, response |-> response, shouldPerformAction |-> should,
     actionToPerform |-> action, suggestedActions |-> suggested,
     hasToolsUsed |-> hasToolsUsed, toolsUsed |-> toolsUsed]

NoHttp == HttpResponse(0, "none", "absent", "absent", "absent", FALSE, <<>>)

PromptRequired == HttpResponse(400, "none", "absent", "absent", "absent", FALSE, <<>>)

\* the handler's catch answering as if the turn had succeeded
InternalServerError_AsSuccess ==
    HttpResponse(200, "string", "absent", "absent", "absent", FALSE, <<>>)

InternalServerError == HttpResponse(500, "none", "absent", "absent", "absent", FALSE, <<>>)

\* responseData of the /chat handler and res.json
ChatResponseData(return) ==
    IF return.kind = "object" /\ return.shouldPerformAction = "true"
          /\ return.actionToPerform # "absent"
    THEN HttpResponse(200, "string", return.shouldPerformAction, return.actionToPerform,
                      return.suggestedActions, TRUE, return.toolsUsed)
    ELSE IF return.kind = "object"
              /\ (return.hasToolsUsed \/ return.suggestedActions # "absent")
    THEN HttpResponse(200, "string", "absent", "absent", return.suggestedActions,
                      return.hasToolsUsed, return.toolsUsed)
    ELSE HttpResponse(200, IF return.kind = "string" THEN "string" ELSE "object",
                      "absent", "absent", "absent", FALSE, <<>>)

CHAT_Init ==
    /\ chat_pc = "idle"
    /\ chat_message = NoChatMessage
    /\ chat_toolsUsed = <<>>
    /\ chat_llmCalls = 0
    /\ chat_toolCalls = 0
    /\ chat_toolOutcome = "none"
    /\ chat_return = NoReturn
    /\ chat_http = NoHttp

\* POST /chat arrives: 400 without a prompt, else callLLMWithTools issues its
\* first completion request
CHAT_Receive ==
    /\ UNCHANGED <<ic_vars, st_vars, eq_vars, tc_vars, pf_vars, cc_vars, rpc_vars>>
    /\ chat_pc = "idle"
    /\ \E promptGiven \in BOOLEAN :
          IF promptGiven
          THEN /\ chat_pc' = "awaitLLM"
               /\ chat_llmCalls' = chat_llmCalls + 1
               /\ UNCHANGED chat_http
          ELSE /\ chat_pc' = "responded"
               /\ chat_http' = PromptRequired
               /\ UNCHANGED chat_llmCalls
    /\ UNCHANGED <<chat_message, chat_toolsUsed, chat_toolCalls, chat_toolOutcome, chat_return>>

\* the first completion settles; a rejection leaves callLLMWithTools and the
\* handler's catch answers 500
CHAT_FirstReply ==
    /\ UNCHANGED <<ic_vars, st_vars, eq_vars, tc_vars, pf_vars, cc_vars, rpc_vars>>
    /\ chat_pc = "awaitLLM"
    /\ \/ /\ chat_pc' = "responded"
          /\ chat_http' = InternalServerError
          /\ UNCHANGED chat_message
       \/ /\ \E m \in ChatMessages : chat_message' = m
          /\ chat_pc' = "loop"
          /\ UNCHANGED chat_http
    /\ UNCHANGED <<chat_toolsUsed, chat_llmCalls, chat_toolCalls, chat_toolOutcome, chat_return>>

\* the head of while (message?.function_call): JSON.parse of the arguments,
\* then the tools/call request
CHAT_CallTool ==
    /\ UNCHANGED <<ic_vars, st_vars, eq_vars, tc_vars, pf_vars, cc_vars, rpc_vars>>
    /\ chat_pc = "loop"
    /\ chat_message.function_call # "none"
    /\ chat_toolCalls < MaxRounds
    /\ IF chat_message.argumentsAreJson
       THEN /\ chat_pc' = "awaitTool"
            /\ chat_toolCalls' = chat_toolCalls + 1
            /\ UNCHANGED chat_http
       ELSE /\ chat_pc' = "responded"
            /\ chat_http' = InternalServerError
            /\ UNCHANGED chat_toolCalls
    /\ UNCHANGED <<chat_message, chat_toolsUsed, chat_llmCalls, chat_toolOutcome, chat_return>>

\* the tools/call request settles
CHAT_ToolSettles ==
    /\ UNCHANGED <<ic_vars, st_vars, eq_vars, tc_vars, pf_vars, cc_vars, rpc_vars>>
    /\ chat_pc = "awaitTool"
    /\ \E outcome \in ToolOutcomes(chat_message.function_call) :
          /\ chat_toolOutcome' = outcome
          /\ CASE outcome = "error" ->
                    LET caught == CatchToolError(chat_message.function_call, chat_toolsUsed,
                                                 "Tool call failed")
                    IN /\ chat_toolsUsed' = caught.toolsUsed
                       /\ chat_return' = caught.return
                       /\ chat_pc' = caught.pc
                       /\ chat_http' = IF caught.pc = "responded"
                                       THEN ChatResponseData(caught.return) ELSE chat_http
                       /\ UNCHANGED chat_llmCalls
               [] outcome = "action" ->
                    LET used == Append(chat_toolsUsed,
                                       ToolRecord(chat_message.function_call, TRUE, ""))
                    IN /\ chat_toolsUsed' = used
                       /\ chat_return' = ActionProtocolReturn(used)
                       /\ chat_pc' = "responded"
                       /\ chat_http' = ChatResponseData(ActionProtocolReturn(used))
                       /\ UNCHANGED chat_llmCalls
               [] outcome = "plain" ->
                    /\ chat_toolsUsed' = Append(chat_toolsUsed,
                                            ToolRecord(chat_message.function_call, TRUE, ""))
                    /\ chat_pc' = "awaitFollowUp"
                    /\ chat_llmCalls' = chat_llmCalls + 1
                    /\ UNCHANGED <<chat_return, chat_http>>
    /\ UNCHANGED <<chat_message, chat_toolCalls>>

\* the completion requested after a tool result settles, inside the try
CHAT_FollowUpReply ==
    /\ UNCHANGED <<ic_vars, st_vars, eq_vars, tc_vars, pf_vars, cc_vars, rpc_vars>>
    /\ chat_pc = "awaitFollowUp"
    /\ \/ LET caught == CatchToolError(chat_message.function_call, chat_toolsUsed,
                                       "completion failed")
          IN /\ chat_toolsUsed' = caught.toolsUsed
             /\ chat_return' = caught.return
             /\ chat_pc' = caught.pc
             /\ chat_http' = IF caught.pc = "responded"
                             THEN ChatResponseData(caught.return) ELSE chat_http
             /\ UNCHANGED chat_message
       \/ /\ \E m \in ChatMessages : chat_message' = m
          /\ chat_pc' = "loop"
          /\ UNCHANGED <<chat_toolsUsed, chat_return, chat_http>>
    /\ UNCHANGED <<chat_llmCalls, chat_toolCalls, chat_toolOutcome>>

\* the loop is left with a message that calls no function
CHAT_Finish ==
    /\ UNCHANGED <<ic_vars, st_vars, eq_vars, tc_vars, pf_vars, cc_vars, rpc_vars>>
    /\ chat_pc = "loop"
    /\ chat_message.function_call = "none"
    /\ chat_return' = FinalReturn(chat_message, chat_toolsUsed)
    /\ chat_http' = ChatResponseData(FinalReturn(chat_message, chat_toolsUsed))
    /\ chat_pc' = "responded"
    /\ UNCHANGED <<chat_message, chat_toolsUsed, chat_llmCalls, chat_toolCalls,
                   chat_toolOutcome>>

CHAT_Next ==
    \/ CHAT_Receive
    \/ CHAT_FirstReply
    \/ CHAT_CallTool
    \/ CHAT_ToolSettles
    \/ CHAT_FollowUpReply
    \/ CHAT_Finish

(* ======== the generator callLLMWithToolsStream and POST /chat/stream === *)

\* most chunks the two completion streams of one request deliver
MaxChunks == 3

\* req.body.prompt: absent or empty, a string, a truthy value that is no string
Prompts == {"missing", "string", "nonString"}

\* context.conversationHistory: absent or empty, an array, a non-empty value
\* without forEach
Histories == {"absent", "array", "nonArray"}

\* one chunk's delta: nothing, content, a function name, an arguments
\* fragment that leaves the buffer parseable or not
Deltas == {"none", "content", "name", "arguments", "brokenArguments"}

\* the events the first stream's loop yields for a delta
InitialStreamEvents(delta) ==
    CASE delta = "none" -> <<>>
      [] delta = "content" -> <<"content">>
      [] delta = "name" -> <<"function_call_start">>
      [] delta \in {"arguments", "brokenArguments"} -> <<"function_call_chunk">>

\* the events the second stream's loop yields for a delta
FinalStreamEvents(delta) == IF delta = "content" THEN <<"content">> ELSE <<>>

\* an inner catch that swallows the exception: only the completion signal
InnerCatchAndDone_Silent(events) == Append(events, "done")

\* the handler's inner catch, then the completion signal and res.end()
InnerCatchAndDone(events) == events \o <<"error", "done">>

\* the handler's outer catch: an error event and res.end()
OuterCatch(events) == Append(events, "error")

\* the generator returned: the completion signal and res.end()
Done(events) == Append(events, "done")

ST_Init ==
    /\ st_pc = "idle"
    /\ st_started = FALSE
    /\ st_status = 0
    /\ st_events = <<>>
    /\ st_functionCall = "none"
    /\ st_buffer = "empty"
    /\ st_toolsUsed = <<>>
    /\ st_chunks = 0
    /\ st_thrown = 0
    /\ st_followUpCall = FALSE

\* POST /chat/stream arrives: 400 without a prompt; else the headers, the
\* system prompt, the metadata event and the generator up to its first await
ST_Receive ==
    /\ UNCHANGED <<ic_vars, chat_vars, eq_vars, tc_vars, pf_vars, cc_vars, rpc_vars>>
    /\ UNCHANGED st_followUpCall
    /\ st_pc = "idle"
    /\ \E prompt \in Prompts : \E history \in Histories :
          IF prompt = "missing"
          THEN /\ st_status' = 400
               /\ st_pc' = "closed"
               /\ UNCHANGED <<st_started, st_events, st_thrown>>
          ELSE IF prompt = "nonString" \/ history = "nonArray"
          THEN \* prompt.toLowerCase or conversationHistory.forEach throws
               /\ st_status' = 200
               /\ st_started' = TRUE
               /\ st_thrown' = st_thrown + 1
               /\ st_events' = OuterCatch(st_events)
               /\ st_pc' = "closed"
          ELSE /\ st_status' = 200
               /\ st_started' = TRUE
               /\ st_events' = Append(st_events, "metadata")
               /\ st_pc' = "awaitStream"
               /\ UNCHANGED st_thrown
    /\ UNCHANGED <<st_functionCall, st_buffer, st_toolsUsed, st_chunks>>

\* the first streamed completion is granted or refused
ST_StreamOpens ==
    /\ UNCHANGED <<ic_vars, chat_vars, eq_vars, tc_vars, pf_vars, cc_vars, rpc_vars>>
    /\ UNCHANGED st_followUpCall
    /\ st_pc = "awaitStream"
    /\ \/ /\ st_pc' = "streaming"
          /\ UNCHANGED <<st_events, st_thrown>>
       \/ /\ st_thrown' = st_thrown + 1
          /\ st_events' = InnerCatchAndDone(st_events)
          /\ st_pc' = "closed"
    /\ UNCHANGED <<st_started, st_status, st_functionCall, st_buffer, st_toolsUsed, st_chunks>>

\* one chunk of the first stream, or the stream breaking
ST_Chunk ==
    /\ UNCHANGED <<ic_vars, chat_vars, eq_vars, tc_vars, pf_vars, cc_vars, rpc_vars>>
    /\ UNCHANGED st_followUpCall
    /\ st_pc = "streaming"
    /\ st_chunks < MaxChunks
    /\ st_chunks' = st_chunks + 1
    /\ \/ \E delta \in Deltas :
            /\ st_events' = st_events \o InitialStreamEvents(delta)
            /\ st_functionCall' = IF delta = "name" THEN "tool" ELSE st_functionCall
            /\ st_buffer' = CASE delta = "arguments" -> "json"
                              [] delta = "brokenArguments" -> "notJson"
                              [] OTHER -> st_buffer
            /\ UNCHANGED <<st_pc, st_thrown>>
       \/ /\ st_thrown' = st_thrown + 1
          /\ st_events' = InnerCatchAndDone(st_events)
          /\ st_pc' = "closed"
          /\ UNCHANGED <<st_functionCall, st_buffer>>
    /\ UNCHANGED <<st_started, st_status, st_toolsUsed>>

\* the first stream ends: with a function call and a non-empty buffer
\* JSON.parse, function_call_complete and the tools/call request; else complete
ST_StreamEnds ==
    /\ UNCHANGED <<ic_vars, chat_vars, eq_vars, tc_vars, pf_vars, cc_vars, rpc_vars>>
    /\ UNCHANGED st_followUpCall
    /\ st_pc = "streaming"
    /\ IF st_functionCall # "none" /\ st_buffer # "empty"
       THEN IF st_buffer = "json"
            THEN /\ st_events' = Append(st_events, "function_call_complete")
                 /\ st_pc' = "awaitTool"
                 /\ UNCHANGED st_thrown
            ELSE /\ st_thrown' = st_thrown + 1
                 /\ st_events' = InnerCatchAndDone(st_events)
                 /\ st_pc' = "closed"
       ELSE /\ st_events' = Done(Append(st_events, "complete"))
            /\ st_pc' = "closed"
            /\ UNCHANGED st_thrown
    /\ UNCHANGED <<st_started, st_status, st_functionCall, st_buffer, st_toolsUsed, st_chunks>>

\* the generator's catch: the failure record and the error event; the
\* generator then returns
StreamCatch ==
    /\ st_thrown' = st_thrown + 1
    /\ st_toolsUsed' = Append(st_toolsUsed, ToolRecord(st_functionCall, FALSE, "message"))
    /\ st_events' = Done(Append(st_events, "error"))
    /\ st_pc' = "closed"

\* an action_protocol event with no return after it: the generator goes on to
\* the follow-up response and its complete event
ActionProtocol_NoReturn(events) == Done(events \o <<"action_protocol", "complete">>)

\* the action_protocol event, then return: the handler's loop ends and writes
\* the completion signal
ActionProtocolThenReturn(events) == Done(Append(events, "action_protocol"))

\* the tools/call request settles
ST_ToolSettles ==
    /\ UNCHANGED <<ic_vars, chat_vars, eq_vars, tc_vars, pf_vars, cc_vars, rpc_vars>>
    /\ UNCHANGED st_followUpCall
    /\ st_pc = "awaitTool"
    /\ \E outcome \in {"action", "plain", "error"} :
          CASE outcome = "error" -> StreamCatch
            [] outcome = "action" ->
                 /\ st_toolsUsed' = Append(st_toolsUsed, ToolRecord(st_functionCall, TRUE, ""))
                 /\ st_events' = ActionProtocolThenReturn(st_events)
                 /\ st_pc' = "closed"
                 /\ UNCHANGED st_thrown
            [] outcome = "plain" ->
                 /\ st_toolsUsed' = Append(st_toolsUsed, ToolRecord(st_functionCall, TRUE, ""))
                 /\ st_pc' = "awaitFollowUp"
                 /\ UNCHANGED <<st_events, st_thrown>>
    /\ UNCHANGED <<st_started, st_status, st_functionCall, st_buffer, st_chunks>>

\* the second streamed completion is granted or refused
ST_FollowUpOpens ==
    /\ UNCHANGED <<ic_vars, chat_vars, eq_vars, tc_vars, pf_vars, cc_vars, rpc_vars>>
    /\ UNCHANGED st_followUpCall
    /\ st_pc = "awaitFollowUp"
    /\ \/ /\ st_pc' = "followUp"
          /\ UNCHANGED <<st_events, st_toolsUsed, st_thrown>>
       \/ StreamCatch
    /\ UNCHANGED <<st_started, st_status, st_functionCall, st_buffer, st_chunks>>

\* one chunk of the second stream, or the stream breaking
ST_FollowUpChunk ==
    /\ UNCHANGED <<ic_vars, chat_vars, eq_vars, tc_vars, pf_vars, cc_vars, rpc_vars>>
    /\ st_pc = "followUp"
    /\ st_chunks < MaxChunks
    /\ st_chunks' = st_chunks + 1
    /\ \/ \E delta \in Deltas :
            /\ st_events' = st_events \o FinalStreamEvents(delta)
            /\ st_followUpCall' =
                  (st_followUpCall \/ delta \in {"name", "arguments", "brokenArguments"})
            /\ UNCHANGED <<st_pc, st_toolsUsed, st_thrown>>
       \/ StreamCatch /\ UNCHANGED st_followUpCall
    /\ UNCHANGED <<st_started, st_status, st_functionCall, st_buffer>>

\* the second stream ends: complete, then the completion signal
ST_FollowUpEnds ==
    /\ UNCHANGED <<ic_vars, chat_vars, eq_vars, tc_vars, pf_vars, cc_vars, rpc_vars>>
    /\ UNCHANGED st_followUpCall
    /\ st_pc = "followUp"
    /\ st_events' = Done(Append(st_events, "complete"))
    /\ st_pc' = "closed"
    /\ UNCHANGED <<st_started, st_status, st_functionCall, st_buffer, st_toolsUsed,
                   st_chunks, st_thrown>>

ST_Next ==
    \/ ST_Receive
    \/ ST_StreamOpens
    \/ ST_Chunk
    \/ ST_StreamEnds
    \/ ST_ToolSettles
    \/ ST_FollowUpOpens
    \/ ST_FollowUpChunk
    \/ ST_FollowUpEnds

(* ===== both orchestrators given the same LLM responses and tool results == *)

\* most LLM responses of one script
MaxScript == 2

\* the complete responses of a script: a function call with JSON arguments
\* and no text, or a text
ScriptMessages ==
    {m \in ChatMessages :
        /\ m.argumentsAreJson
        /\ m.function_call # "none" => m.content = "null"}

ScriptOutcomes == {"action", "plain", "error"}

Scripts ==
    [chosen : {TRUE},
     llm : UNION {[1..n -> ScriptMessages] : n \in 1..MaxScript},
     tools : UNION {[1..n -> ScriptOutcomes] : n \in 0..MaxScript}]

NoScript == [chosen |-> FALSE, llm |-> <<>>, tools |-> <<>>]

EQ_Init == eq_script = NoScript

\* how the tools/call request of this step of the stream settled
StreamToolOutcome ==
    IF st_thrown' # st_thrown THEN "error"
    ELSE IF st_pc' = "closed" THEN "action"
    ELSE "plain"

\* the chunks read from the first stream add up to the response m
StreamDelivered(m) ==
    /\ IF m.function_call # "none"
       THEN st_functionCall # "none" /\ st_buffer = "json"
       ELSE st_functionCall = "none" /\ st_buffer = "empty"
    /\ (m.content # "null") = (\E i \in 1..Len(st_events) : st_events[i] = "content")

\* this step of the /chat turn is given what the script holds
ChatFollowsScript ==
    CASE chat_pc = "idle" -> chat_pc' = "awaitLLM"
      [] chat_pc \in {"awaitLLM", "awaitFollowUp"} ->
            /\ chat_llmCalls <= Len(eq_script.llm)
            /\ chat_pc' = "loop"
            /\ chat_message' = eq_script.llm[chat_llmCalls]
      [] chat_pc = "awaitTool" ->
            /\ chat_toolCalls <= Len(eq_script.tools)
            /\ chat_toolOutcome' = eq_script.tools[chat_toolCalls]
      [] OTHER -> TRUE

\* this step of the /chat/stream request is given what the script holds
StreamFollowsScript ==
    CASE st_pc = "idle" -> st_pc' = "awaitStream"
      [] st_pc = "awaitStream" -> st_pc' = "streaming"
      [] st_pc = "streaming" ->
            \/ /\ st_pc' = "streaming"
               /\ st_buffer' # "notJson"
               /\ st_functionCall' # "none" => eq_script.llm[1].function_call # "none"
               /\ st_events' # st_events /\ Last(st_events') = "content"
                     => eq_script.llm[1].content # "null"
            \/ /\ st_pc' # "streaming"
               /\ st_thrown' = st_thrown
               /\ StreamDelivered(eq_script.llm[1])
      [] st_pc = "awaitTool" ->
            /\ Len(eq_script.tools) >= 1
            /\ StreamToolOutcome = eq_script.tools[1]
      [] st_pc = "awaitFollowUp" -> st_pc' = "followUp"
      [] st_pc = "followUp" ->
            /\ Len(eq_script.llm) >= 2
            /\ \/ /\ st_pc' = "followUp"
                  /\ st_followUpCall' => eq_script.llm[2].function_call # "none"
               \/ /\ st_pc' # "followUp"
                  /\ st_thrown' = st_thrown
                  /\ st_followUpCall = (eq_script.llm[2].function_call # "none")
      [] OTHER -> TRUE

\* the responses are fixed
PAIR_Script ==
    /\ ~eq_script.chosen
    /\ \E script \in Scripts : eq_script' = script
    /\ UNCHANGED <<ic_vars, chat_vars, st_vars, tc_vars, pf_vars, cc_vars, rpc_vars>>

\* POST /chat served with them
PAIR_Chat ==
    /\ eq_script.chosen
    /\ CHAT_Next
    /\ ChatFollowsScript

\* then POST /chat/stream served with them
PAIR_Stream ==
    /\ eq_script.chosen
    /\ chat_pc = "responded"
    /\ ST_Next
    /\ StreamFollowsScript

PAIR_Next == PAIR_Script \/ PAIR_Chat \/ PAIR_Stream

(* ================= the email tools' handlers (tools/call) ============== *)

EmailTools == {"summarizeEmail", "draftReply", "rewriteReply", "analyzeEmail"}

Priorities == {"low", "medium", "high"}

Categories == {"work", "personal", "marketing", "notification", "other"}

Sentiments == {"positive", "neutral", "negative"}

Tones ==
    {"professional", "casual", "formal", "urgent", "friendly", "polite",
     "aggressive", "apologetic", "neutral"}

\* what generateFallbackAnalysis reads of a valid emailContent
EmailFeatures ==
    [isUrgent : BOOLEAN, isWorkRelated : BOOLEAN, hasQuestions : BOOLEAN,
     hasDeadlines : BOOLEAN, isAggressive : BOOLEAN, isApologetic : BOOLEAN,
     isFriendly : BOOLEAN]

NoFeatures ==
    [isUrgent |-> FALSE, isWorkRelated |-> FALSE, hasQuestions |-> FALSE,
     hasDeadlines |-> FALSE, isAggressive |-> FALSE, isApologetic |-> FALSE,
     isFriendly |-> FALSE]

\* the four enum fields of an analysis
Analysis(isNull, priority, category, sentiment, tone) ==
    [isNull |-> isNull, priority |-> priority, category |-> category,
     sentiment |-> sentiment, tone |-> tone]

NoAnalysis == Analysis(FALSE, "absent", "absent", "absent", "absent")

\* what JSON.parse(aiResponse) can give: null, or a value whose four fields
\* are a listed member, some other value ("unlisted") or undefined ("absent";
\* all four are undefined on a number, a string, an array)
AnalysisJson ==
    {Analysis(TRUE, "absent", "absent", "absent", "absent")}
    \cup [isNull : {FALSE},
          priority : Priorities \cup {"absent", "unlisted"},
          category : Categories \cup {"absent", "unlisted"},
          sentiment : Sentiments \cup {"absent", "unlisted"},
          tone : Tones \cup {"absent", "unlisted"}]

\* the fields of the LLM's JSON passed on as they are
validateAnalysis_Unchecked(analysis) == analysis

validateAnalysis(analysis) ==
    Analysis(FALSE,
             IF analysis.priority \in Priorities THEN analysis.priority ELSE "low",
             IF analysis.category \in Categories THEN analysis.category ELSE "other",
             IF analysis.sentiment \in Sentiments THEN analysis.sentiment ELSE "neutral",
             IF analysis.tone \in Tones THEN analysis.tone ELSE "neutral")

generateFallbackAnalysis(emailContent) ==
    Analysis(FALSE,
             IF emailContent.isUrgent THEN "high"
             ELSE IF emailContent.hasQuestions \/ emailContent.hasDeadlines THEN "medium"
             ELSE "low",
             IF emailContent.isWorkRelated THEN "work" ELSE "personal",
             "neutral",
             IF emailContent.isUrgent THEN "urgent"
             ELSE IF emailContent.isAggressive THEN "aggressive"
             ELSE IF emailContent.isApologetic THEN "apologetic"
             ELSE IF emailContent.isFriendly THEN "friendly"
             ELSE IF emailContent.isWorkRelated THEN "professional"
             ELSE "neutral")

\* an email object as EmailContent sees it: each field a value of the right
\* type ("ok"), undefined ("absent"), null or a value of another type
Email(isObject, subject, sender, recipients, body, bodyHtml) ==
    [isObject |-> isObject, subject |-> subject, sender |-> sender,
     recipients |-> recipients, body |-> body, bodyHtml |-> bodyHtml]

NoEmail == Email(FALSE, "absent", "absent", "absent", "absent", "absent")

FieldKinds == {"ok", "absent", "null", "wrongType"}

\* what JSON.parse(newDraft) can give: an object, or a number, string, array,
\* boolean or null
EmailJson ==
    {NoEmail}
    \cup [isObject : {TRUE}, subject : FieldKinds, sender : FieldKinds,
          recipients : FieldKinds, body : FieldKinds, bodyHtml : FieldKinds]

\* the fallback object built when JSON.parse throws
FallbackEmail == Email(TRUE, "ok", "ok", "ok", "ok", "null")

\* the outcome of the handler's callLLM: it throws, or returns a text that
\* JSON.parse rejects ("prose") or accepts ("json") with the value it gives
ToolReply(kind, analysis, email) == [kind |-> kind, analysis |-> analysis, email |-> email]

NoToolReply == ToolReply("none", NoAnalysis, NoEmail)

ToolReplies(name) ==
    {ToolReply("throws", NoAnalysis, NoEmail), ToolReply("prose", NoAnalysis, NoEmail)}
    \cup CASE name = "analyzeEmail" ->
                {ToolReply("json", a, NoEmail) : a \in AnalysisJson}
           [] name = "rewriteReply" ->
                {ToolReply("json", NoAnalysis, e) : e \in EmailJson}
           [] OTHER -> {ToolReply("json", NoAnalysis, NoEmail)}

\* a call: the tool, whether its input schema accepts the arguments, and the
\* emailContent of an analyzeEmail call
ToolCalls ==
    [name : EmailTools \ {"analyzeEmail"}, valid : BOOLEAN, emailContent : {NoFeatures}]
    \cup [name : {"analyzeEmail"}, valid : {TRUE}, emailContent : EmailFeatures]
    \cup [name : {"analyzeEmail"}, valid : {FALSE}, emailContent : {NoFeatures}]

NoToolCall == [name |-> "none", valid |-> FALSE, emailContent |-> NoFeatures]

\* the handler's return value: the analysis in content[0].text, the action
\* protocol fields, actionToPerform.parameters.email
ToolResult(analysis, should, action, email) ==
    [analysis |-> analysis, shouldPerformAction |-> should, action |-> action,
     email |-> email]

NoToolResult == ToolResult(NoAnalysis, "absent", "absent", NoEmail)

\* analyzeEmailTool.handler after its input was accepted
analyzeEmailResult(emailContent, llm) ==
    ToolResult(IF llm.kind = "json" /\ ~llm.analysis.isNull
               THEN validateAnalysis(llm.analysis)
               ELSE generateFallbackAnalysis(emailContent),
               "absent", "absent", NoEmail)

\* structuredEmail of rewriteReplyTool.handler
structuredEmail(llm) == IF llm.kind = "json" THEN llm.email ELSE FallbackEmail

\* the handler's return once callLLM returned
ToolHandlerResult(call, llm) ==
    CASE call.name = "analyzeEmail" -> analyzeEmailResult(call.emailContent, llm)
      [] call.name = "rewriteReply" ->
            ToolResult(NoAnalysis, "true", "rewriteReply", structuredEmail(llm))
      [] call.name = "draftReply" -> ToolResult(NoAnalysis, "true", "draftReply", NoEmail)
      [] call.name = "summarizeEmail" ->
            ToolResult(NoAnalysis, "true", "summarizeEmail", NoEmail)

TC_Init ==
    /\ tc_pc = "idle"
    /\ tc_call = NoToolCall
    /\ tc_llm = NoToolReply
    /\ tc_result = NoToolResult

\* tools/call arrives: the handler parses its input and calls callLLM
TC_Call ==
    /\ UNCHANGED <<ic_vars, chat_vars, st_vars, eq_vars, pf_vars, cc_vars, rpc_vars>>
    /\ tc_pc = "idle"
    /\ \E call \in ToolCalls :
          /\ tc_call' = call
          /\ tc_pc' = IF call.valid THEN "awaitLLM" ELSE "threw"
    /\ UNCHANGED <<tc_llm, tc_result>>

\* callLLM settles and the handler returns or throws
TC_LLMSettles ==
    /\ UNCHANGED <<ic_vars, chat_vars, st_vars, eq_vars, pf_vars, cc_vars, rpc_vars>>
    /\ tc_pc = "awaitLLM"
    /\ \E llm \in ToolReplies(tc_call.name) :
          /\ tc_llm' = llm
          /\ IF llm.kind = "throws" /\ tc_call.name # "analyzeEmail"
             THEN /\ tc_pc' = "threw"
                  /\ UNCHANGED tc_result
             ELSE /\ tc_pc' = "returned"
                  /\ tc_result' = ToolHandlerResult(tc_call, llm)
    /\ UNCHANGED tc_call

TC_Next == TC_Call \/ TC_LLMSettles

(* ======================= ProfileService (profiles) ==================== *)

\* the preference tables: user_signoffs, user_spacing, user_defaults,
\* user_signatures, user_names
Sections == {"signoffs", "spacing", "defaults", "signature", "names"}

AllSections(kind) == [s \in Sections |-> kind]

\* normalizeProfile: a table without rows gives DEFAULT_EMAIL_PREFERENCES for
\* that section, except signoffs, whose eight entries stay ""
normalizeProfile(sections) ==
    [s \in Sections |->
        IF sections[s] = "none"
        THEN (IF s = "signoffs" THEN "empty" ELSE "default")
        ELSE sections[s]]

ProfileResult(op, existed, ok, preferences) ==
    [op |-> op, existed |-> existed, ok |-> ok, preferences |-> preferences]

NoProfileResult == ProfileResult("none", FALSE, FALSE, AllSections("none"))

\* prisma.userProfile.create({data: {userId, ...}}) succeeds unless a row of
\* that userId exists (user_profiles_userId_key is unique)
createProfileWithDefaults(row) == ~row

PF_Init ==
    /\ pf_row = FALSE
    /\ pf_sections = AllSections("none")
    /\ pf_result = NoProfileResult

\* getOrCreateProfile(userId)
PF_GetOrCreate ==
    /\ UNCHANGED <<ic_vars, chat_vars, st_vars, eq_vars, tc_vars, cc_vars, rpc_vars>>
    /\ pf_row' = TRUE
    /\ pf_sections' = IF pf_row THEN pf_sections ELSE AllSections("default")
    /\ pf_result' = ProfileResult("get", pf_row, TRUE, normalizeProfile(pf_sections'))

\* updateProfile(userId, {section: ...}) and updateSignoff .. updateNames:
\* getOrCreateProfile, the upsert, getOrCreateProfile
PF_Update ==
    /\ UNCHANGED <<ic_vars, chat_vars, st_vars, eq_vars, tc_vars, cc_vars, rpc_vars>>
    /\ \E section \in Sections :
          LET ensured == IF pf_row THEN pf_sections ELSE AllSections("default")
          IN /\ pf_sections' = [ensured EXCEPT ![section] = "custom"]
             /\ pf_result' = ProfileResult("update", pf_row, TRUE,
                                           normalizeProfile(pf_sections'))
    /\ pf_row' = TRUE

\* resetProfile(userId): five deleteMany, createProfileWithDefaults,
\* getOrCreateProfile
PF_Reset ==
    /\ UNCHANGED <<ic_vars, chat_vars, st_vars, eq_vars, tc_vars, cc_vars, rpc_vars>>
    /\ IF createProfileWithDefaults(pf_row)
       THEN /\ pf_row' = TRUE
            /\ pf_sections' = AllSections("default")
            /\ pf_result' = ProfileResult("reset", pf_row, TRUE,
                                          normalizeProfile(pf_sections'))
       ELSE /\ pf_sections' = AllSections("none")
            /\ pf_result' = ProfileResult("reset", pf_row, FALSE, AllSections("none"))
            /\ UNCHANGED pf_row

\* deleteProfile(userId): the row and, by cascade, its preference rows;
\* prisma's delete throws when there is no row
PF_Delete ==
    /\ UNCHANGED <<ic_vars, chat_vars, st_vars, eq_vars, tc_vars, cc_vars, rpc_vars>>
    /\ pf_row' = FALSE
    /\ pf_sections' = AllSections("none")
    /\ pf_result' = ProfileResult("delete", pf_row, pf_row, AllSections("none"))

PF_Next == PF_GetOrCreate \/ PF_Update \/ PF_Reset \/ PF_Delete

(* ===================== two chat turns at the same time ================ *)

CC_Init ==
    /\ cc_turn = [t \in {"first", "second"} |->
                    [pc |-> "idle", call |-> [tool |-> "none", userId |-> "none"],
                     messages |-> <<>>, toolsUsed |-> <<>>, found |-> FALSE,
                     userPreferences |-> "null", outcome |-> "none"]]
    /\ cc_profiles = {}

\* callLLMWithTools starts: messages and toolsUsed are locals of the call
CC_Request ==
    /\ UNCHANGED <<ic_vars, chat_vars, st_vars, eq_vars, tc_vars, pf_vars, rpc_vars>>
    /\ \E t \in DOMAIN cc_turn :
          /\ cc_turn[t].pc = "idle"
          /\ cc_turn' = [cc_turn EXCEPT ![t].pc = "awaitLLM",
                                        ![t].messages = <<"system", "user">>,
                                        ![t].toolsUsed = <<>>]
    /\ UNCHANGED cc_profiles

\* the first completion settles: a plain text (tool "none"), or a call of
\* draftReply without a userId or with the userId of one of two users; the
\* handler of draftReply loads the profile only when the call names a userId
CC_LLMSettles ==
    /\ UNCHANGED <<ic_vars, chat_vars, st_vars, eq_vars, tc_vars, pf_vars, rpc_vars>>
    /\ \E t \in DOMAIN cc_turn,
          call \in [tool : {"none"}, userId : {"none"}]
                   \cup [tool : {"draftReply"}, userId : {"none", "ada", "bob"}] :
          /\ cc_turn[t].pc = "awaitLLM"
          /\ cc_turn' = [cc_turn EXCEPT
                ![t].call = call,
                ![t].pc = IF call.tool = "none" THEN "done"
                          ELSE IF call.userId = "none" THEN "drafting"
                          ELSE "findUnique",
                ![t].outcome = IF call.tool = "none" THEN "text" ELSE "none"]
    /\ UNCHANGED cc_profiles

\* getOrCreateProfile, first await: prisma.userProfile.findUnique
CC_FindUnique ==
    /\ UNCHANGED <<ic_vars, chat_vars, st_vars, eq_vars, tc_vars, pf_vars, rpc_vars>>
    /\ \E t \in DOMAIN cc_turn :
          /\ cc_turn[t].pc = "findUnique"
          /\ LET found == cc_turn[t].call.userId \in cc_profiles
             IN cc_turn' = [cc_turn EXCEPT
                   ![t].found = found,
                   ![t].pc = IF found THEN "drafting" ELSE "create",
                   ![t].userPreferences = IF found THEN "stored" ELSE "null"]
    /\ UNCHANGED cc_profiles

\* getOrCreateProfile, second await: createProfileWithDefaults.  The create is
\* rejected when the userId has a row by now; the handler of draftReply
\* catches that and goes on with userPreferences null
CC_Create ==
    /\ UNCHANGED <<ic_vars, chat_vars, st_vars, eq_vars, tc_vars, pf_vars, rpc_vars>>
    /\ \E t \in DOMAIN cc_turn :
          /\ cc_turn[t].pc = "create"
          /\ LET userId == cc_turn[t].call.userId
             IN IF userId \in cc_profiles
                THEN /\ cc_turn' = [cc_turn EXCEPT ![t].pc = "drafting",
                                                   ![t].userPreferences = "null"]
                     /\ UNCHANGED cc_profiles
                ELSE /\ cc_turn' = [cc_turn EXCEPT ![t].pc = "drafting",
                                                   ![t].userPreferences = "stored"]
                     /\ cc_profiles' = cc_profiles \cup {userId}

\* the handler of draftReply drafts, applies the preferences it loaded (the
\* profile has a row by then), and returns its action; callLLMWithTools
\* records the tool and returns the action at once
CC_ToolReturns ==
    /\ UNCHANGED <<ic_vars, chat_vars, st_vars, eq_vars, tc_vars, pf_vars, rpc_vars>>
    /\ \E t \in DOMAIN cc_turn :
          /\ cc_turn[t].pc = "drafting"
          /\ cc_turn' = [cc_turn EXCEPT
                ![t].pc = "done",
                ![t].toolsUsed = Append(@, [name |-> "draftReply", success |-> TRUE]),
                ![t].outcome = IF cc_turn[t].userPreferences = "null"
                               THEN "draft"
                               ELSE "draftWithPreferences"]
    /\ UNCHANGED cc_profiles

CC_Next == CC_Request \/ CC_LLMSettles \/ CC_FindUnique \/ CC_Create \/ CC_ToolReturns

\* the same turn served with no other request in the server: between the
\* findUnique and the create of getOrCreateProfile nothing else runs, so the
\* profile is found or created and the preferences are loaded
TurnAlone(call) ==
    [messages |-> <<"system", "user">>,
     toolsUsed |-> IF call.tool = "none" THEN <<>>
                   ELSE <<[name |-> "draftReply", success |-> TRUE]>>,
     outcome |-> IF call.tool = "none" THEN "text"
                 ELSE IF call.userId = "none" THEN "draft"
                 ELSE "draftWithPreferences"]

(* ================= tools/call of the JSON-RPC server ================== *)

\* the inputSchema tools/list advertises for the tool accepts the arguments.
\* An argument is "absent", the "empty" string, a non-empty "string" or an
\* "object"; sender is "absent", an "address" or some other "text".  The
\* schemas give types and required names only, no minimum length.
inputSchemaAccepts(name, args) ==
    LET isString(value) == value \in {"empty", "string"}
        optional(value) == value = "absent" \/ isString(value)
    IN CASE name \in {"summarizeEmail", "draftReply"} ->
                isString(args.emailContent) /\ optional(args.tone)
         [] name = "rewriteReply" -> isString(args.draft) /\ isString(args.instruction)
         [] name = "analyzeEmail" -> isString(args.emailContent)
         [] OTHER -> FALSE

\* mappedArgs of the tools/call case: what the handler is called with
mappedArgs(name, args) ==
    LET asSent == [text |-> args.text, email |-> "absent", tone |-> args.tone,
                   draft |-> args.draft, instruction |-> args.instruction,
                   emailContent |-> args.emailContent, sender |-> "absent"]
        none == [text |-> "absent", email |-> "absent", tone |-> "absent",
                 draft |-> "absent", instruction |-> "absent",
                 emailContent |-> "absent", sender |-> "absent"]
        truthy == args.emailContent \in {"string", "object"}
    IN CASE name = "summarizeEmail" /\ truthy ->
                [none EXCEPT !.email = args.emailContent]
         [] name = "draftReply" /\ truthy ->
                [none EXCEPT !.email = args.emailContent, !.tone = args.tone]
         [] name = "analyzeEmail" /\ truthy ->
                \* a string is wrapped with sender: args.sender || the default;
                \* an "object" stands for a complete email object, passed as it is
                [none EXCEPT !.emailContent = "object",
                             !.sender = IF args.emailContent = "object" THEN "address"
                                        ELSE IF args.sender = "text" THEN "text"
                                        ELSE "address"]
         [] OTHER -> asSent

\* the parse at the head of the tool's handler accepts what it destructures
\* from mappedArgs
handlerAccepts(name, mapped) ==
    CASE name = "summarizeEmail" -> mapped.text = "string"
      [] name = "draftReply" -> mapped.email = "string"
      [] name = "rewriteReply" -> mapped.draft = "string" /\ mapped.instruction = "string"
      [] name = "analyzeEmail" -> mapped.emailContent = "object" /\ mapped.sender = "address"
      [] OTHER -> FALSE

RPC_Init ==
    /\ rpc_pc = "idle"
    /\ rpc_request = [name |-> "none"]
    /\ rpc_mapped = [text |-> "absent"]
    /\ rpc_response = [status |-> 0, code |-> 0, thrownBy |-> "none"]

\* tools/call arrives: an unknown name is answered 400; else the arguments
\* are mapped and the handler is called, which parses its input and either
\* throws (the catch answers 500, -32603) or goes on to callLLM
RPC_Call ==
    /\ UNCHANGED <<ic_vars, chat_vars, st_vars, eq_vars, tc_vars, pf_vars, cc_vars>>
    /\ rpc_pc = "idle"
    /\ \E name \in EmailTools \cup {"unknown"} :
       \E args \in [text : {"absent", "string"},
                    emailContent : {"absent", "empty", "string", "object"},
                    tone : {"absent", "string"},
                    draft : {"absent", "empty", "string"},
                    instruction : {"absent", "empty", "string"},
                    sender : {"absent", "address", "text"}] :
          /\ rpc_request' = [name |-> name, args |-> args]
          /\ IF name = "unknown"
             THEN /\ rpc_pc' = "responded"
                  /\ rpc_response' = [status |-> 400, code |-> -32601, thrownBy |-> "none"]
                  /\ UNCHANGED rpc_mapped
             ELSE /\ rpc_mapped' = mappedArgs(name, args)
                  /\ IF handlerAccepts(name, mappedArgs(name, args))
                     THEN /\ rpc_pc' = "awaitHandler"
                          /\ UNCHANGED rpc_response
                     ELSE /\ rpc_pc' = "responded"
                          /\ rpc_response' = [status |-> 500, code |-> -32603,
                                              thrownBy |-> "parse"]

\* the handler's callLLM settles: the result is sent, or the catch answers
\* 500; analyzeEmail catches a failed callLLM itself and returns its fallback
RPC_HandlerSettles ==
    /\ UNCHANGED <<ic_vars, chat_vars, st_vars, eq_vars, tc_vars, pf_vars, cc_vars>>
    /\ rpc_pc = "awaitHandler"
    /\ \E llmThrows \in BOOLEAN :
          rpc_response' = IF llmThrows /\ rpc_request.name # "analyzeEmail"
                          THEN [status |-> 500, code |-> -32603, thrownBy |-> "callLLM"]
                          ELSE [status |-> 200, code |-> 0, thrownBy |-> "none"]
    /\ rpc_pc' = "responded"
    /\ UNCHANGED <<rpc_request, rpc_mapped>>

RPC_Next == RPC_Call \/ RPC_HandlerSettles

(* =========================== specifications ========================== *)

Init == IC_Init /\ CHAT_Init /\ ST_Init /\ EQ_Init /\ TC_Init /\ PF_Init /\ CC_Init /\ RPC_Init

\* the dispatcher alone
SpecDispatch == Init /\ [][IC_Next]_vars

\* one POST /chat turn
SpecChat == Init /\ [][CHAT_Next]_vars

\* one POST /chat/stream request
SpecStream == Init /\ [][ST_Next]_vars

\* POST /chat and POST /chat/stream given the same responses
SpecPair == Init /\ [][PAIR_Next]_vars

\* one tools/call of an email tool
SpecTools == Init /\ [][TC_Next]_vars

\* ProfileService calls for one userId, one after another
SpecProfile == Init /\ [][PF_Next]_vars

\* two POST /chat turns interleaved
SpecConcurrent == Init /\ [][CC_Next]_vars

\* one tools/call request to the JSON-RPC server
SpecRpc == Init /\ [][RPC_Next]_vars

(* ======================= claims on the dispatcher ===================== *)

MakeItShorter == Literal(<<"make", "it", "shorter">>)

\* C1: once the handler is past its input validation with "make it shorter"
\* and a current draft in the context, rewriteReply is the one callee invoked:
\* exactly one call, no other tool and no general LLM chat call.
C1_MakeItShorterWithDraftCallsRewriteOnce ==
    (ic_pc \notin {"idle", "routing"} /\ TrimLower(ic_message) = MakeItShorter
        /\ ic_context.currentDraft # "absent")
    => (Len(ic_calls) = 1 /\ ic_calls[1].callee = "rewriteReply")

\* C2: "make it shorter" without a current draft ends with an outcome that
\* names the summarizeEmail action.
C2_MakeItShorterNoDraftSummarizes ==
    (ic_pc = "done" /\ TrimLower(ic_message) = MakeItShorter
        /\ ic_context.currentDraft = "absent")
    => /\ ic_result.shouldPerformAction = "true"
       /\ ic_result.actionToPerform = "summarizeEmail"

\* C3: an exact command with no thread email of the selected id falls through
\* to the general chat: callLLM is invoked and the answer is not the error
\* response.
C3_NoSelectedEmailFallsThroughToChat ==
    (ic_pc = "done" /\ ExactCommandTool(TrimLower(ic_message)) # "none"
        /\ ~EmailFound(ic_context))
    => /\ \E i \in 1..Len(ic_calls) : ic_calls[i].callee = "callLLM"
       /\ ic_toolResult = "none"

\* arg is body without its trailing quoted block: no "On ... wrote:" header
\* is left in arg, and arg is either the whole body or what precedes a
\* header of the body, less the blanks around it
StrippedOfQuotedBlock(body, arg) ==
    /\ \A i \in 1..Len(arg) : ~QuotedMatchesAt(arg, i)
    /\ \E cut \in 1..(Len(body) + 1) :
          IF cut <= Len(body)
          THEN QuotedMatchesAt(body, cut) /\ arg = Trim(SubSeq(body, 1, cut - 1))
          ELSE arg = body

DraftReplyCase ==
    /\ ic_pc \in {"awaitTool", "done"}
    /\ TrimLower(ic_message) = Literal(<<"draft", "reply">>)
    /\ EmailFound(ic_context)

DraftReplyCalledOnceWithStrippedBody ==
    /\ Len(ic_calls) = 1
    /\ ic_calls[1].callee = "draftReply"
    /\ StrippedOfQuotedBlock(ic_selectedEmail.body, ic_calls[1].text)

\* C4 (as amended): "draft reply" (after trim and lower-casing) with the
\* selected email in the thread invokes draftReply exactly once with the body
\* stripped of its quoted block; when that call returns the dispatcher answers
\* shouldPerformAction true and action draftReply, and when it throws (an
\* empty stripped body, a failed LLM call) it answers the error response.
C4_DraftReplyRoutedAndAnsweredWhenCallReturns ==
    DraftReplyCase
    => /\ DraftReplyCalledOnceWithStrippedBody
       /\ (ic_pc = "done" /\ ic_toolResult = "returned")
             => (ic_result.shouldPerformAction = "true"
                   /\ ic_result.actionToPerform = "draftReply")
       /\ (ic_pc = "done" /\ ic_toolResult = "threw")
             => ic_result = FallbackResponse

C4_Witness ==
    /\ ic_pc = "done"
    /\ ic_message = [words |-> <<"draft", "reply">>, upper |-> TRUE, padded |-> TRUE]
    /\ EmailFound(ic_context)
    /\ ic_selectedEmail.body = <<"x", "On", "sp", "nl", "wrote:">>
    /\ ic_calls = <<Call("draftReply", <<"x">>, NoMessage)>>
    /\ ic_toolResult = "returned"
    /\ ic_result.actionToPerform = "draftReply"

\* C4 as first stated: in the same case the dispatcher always answers
\* shouldPerformAction true and action draftReply.
C4_DraftReplyAlwaysAnswersAction ==
    (DraftReplyCase /\ ic_pc = "done")
    => /\ DraftReplyCalledOnceWithStrippedBody
       /\ ic_result.shouldPerformAction = "true"
       /\ ic_result.actionToPerform = "draftReply"

\* C10: every response the dispatcher returns has exactly one of
\* actionToPerform and suggestedActions populated, and shouldPerformAction is
\* true exactly when actionToPerform is the one populated.
C10_EnvelopeHasExactlyOneBranch ==
    ic_pc = "done"
    => /\ (ic_result.actionToPerform # "absent") # (ic_result.suggestedActions # "absent")
       /\ (ic_result.shouldPerformAction = "true") = (ic_result.actionToPerform # "absent")

(* ====================== claims on the orchestrator ==================== *)

\* C5: a turn makes fewer than MaxRounds tool round-trips, whatever the LLM
\* replies; the model's loop stops only where the code's does, and at MaxRounds.
C5_RoundTripsStayBelowBound == chat_toolCalls < MaxRounds

ToolFailsInThisStep == chat_pc = "awaitTool" /\ chat_toolOutcome' = "error"

\* C6: the step in which a tool call fails appends the failure record to
\* toolsUsed, returns "Error calling tool <name>: <message>" and ends the turn,
\* and from then on no completion and no tool call is requested.
C6_ToolFailureRecordedThenTurnEnds ==
    [][/\ ToolFailsInThisStep
          => /\ Len(chat_toolsUsed') = Len(chat_toolsUsed) + 1
             /\ SubSeq(chat_toolsUsed', 1, Len(chat_toolsUsed)) = chat_toolsUsed
             /\ Last(chat_toolsUsed').name = chat_message.function_call
             /\ ~Last(chat_toolsUsed').success
             /\ chat_pc' = "responded"
             /\ chat_return'.kind = "string"
             /\ chat_return'.text.prefix = "Error calling tool"
             /\ chat_return'.text.name = chat_message.function_call
             /\ chat_return'.text.error # ""
       /\ chat_toolOutcome = "error"
          => /\ chat_llmCalls' = chat_llmCalls
             /\ chat_toolCalls' = chat_toolCalls
             /\ chat_pc' = "responded"]_vars

C6_Witness ==
    /\ chat_pc = "responded"
    /\ chat_toolOutcome = "error"
    /\ chat_toolCalls = 2
    /\ chat_llmCalls = 2
    /\ chat_toolsUsed = <<ToolRecord("analyzeEmail", TRUE, ""),
                          ToolRecord("draftReply", FALSE, "Tool call failed")>>
    /\ chat_return.text = ErrorCallingTool("draftReply", "Tool call failed")

\* C7: when a tool call has failed, what the turn returns carries toolsUsed
\* with the earlier successes and the failure record last, and the response
\* is the error string naming the tool.
C7_FailedTurnCarriesToolsUsed ==
    (chat_pc = "responded" /\ chat_toolOutcome = "error")
    => /\ chat_return.text.name = chat_message.function_call
       /\ chat_return.hasToolsUsed
       /\ chat_return.toolsUsed = chat_toolsUsed
       /\ ~Last(chat_return.toolsUsed).success
       /\ Last(chat_return.toolsUsed).error # ""
       /\ chat_http.hasToolsUsed

(* ===================== claims on the streaming endpoint =============== *)

StreamClosed == st_pc = "closed" /\ st_started

\* C8: a response that started streaming and was closed has done as its
\* last event.
C8_StreamEndsWithDone ==
    StreamClosed => (st_events # <<>> /\ Last(st_events) = "done")

ErrorEvents == {i \in 1..Len(st_events) : st_events[i] = "error"}

\* C9: when an exception was raised while serving a streamed request, the
\* closed stream holds exactly one error event, and a done event after it.
C9_OneErrorEventBeforeDone ==
    (StreamClosed /\ st_thrown > 0)
    => /\ Cardinality(ErrorEvents) = 1
       /\ \E i \in ErrorEvents : \E j \in (i + 1)..Len(st_events) : st_events[j] = "done"

\* C21: when the general chat's LLM text is not JSON the handler returns
\* that text with an empty suggestedActions and shouldPerformAction false,
\* not the error fallback.
C21_UnparseableChatTextIsWrapped ==
    ic_pc = "done" /\ ic_aiResponse = "prose"
    => ic_result = Envelope("llm text", "false", "absent", "empty")

\* a general chat turn whose LLM text was not JSON
C21_Witness ==
    /\ ic_pc = "done"
    /\ ic_aiResponse = "prose"
    /\ Last(ic_calls).callee = "callLLM"
    /\ ic_result.response = "llm text"

\* C20: the instruction of every rewriteReply call of the dispatcher is the
\* message as the user sent it.
C20_InstructionIsRawMessage ==
    \A i \in 1..Len(ic_calls) :
        ic_calls[i].callee = "rewriteReply" => ic_calls[i].instruction = ic_message

\* C29: on the modify-draft path, whenever the call of rewriteReply returned,
\* the dispatcher answers shouldPerformAction true with the draftReply action
\* that carries the rewritten draft, and not the generic error fallback:
C29_RewriteReturnedGivesDraftAction ==
    /\ ic_pc = "done"
    /\ ic_toolResult = "returned"
    /\ Last(ic_calls).callee = "rewriteReply"
    => /\ ic_result.shouldPerformAction = "true"
       /\ ic_result.actionToPerform = "draftReply"
       /\ ic_result # FallbackResponse

TurnFinished ==
    /\ chat_pc = "responded"
    /\ chat_return.kind = "object"
    /\ chat_message.function_call = "none"

\* C23: a final text without the suggestedActions marker, or with one whose
\* array is not JSON, ends the turn normally: suggestedActions is left
\* undefined and the text and toolsUsed are returned as they are.
C23_FailedExtractionLeavesTurnIntact ==
    TurnFinished /\ chat_message.content \in {"prose", "badActions"}
    => /\ chat_return.suggestedActions = "absent"
       /\ chat_return.content = chat_message.content
       /\ chat_return.toolsUsed = chat_toolsUsed
       /\ chat_http.status = 200
       /\ chat_http.suggestedActions = "absent"

\* a turn that used a tool and ended on a text whose array is not JSON
C23_Witness ==
    /\ TurnFinished
    /\ chat_message.content = "badActions"
    /\ chat_toolsUsed # <<>>
    /\ chat_return.suggestedActions = "absent"

\* C14: whenever the /chat turn has ended, toolsUsed holds one record for
\* each tools/call request made in the turn.
C14_OneRecordPerInvocation ==
    chat_pc = "responded" => Len(chat_toolsUsed) = chat_toolCalls

\* C27: a record with success false is pushed only for a tools/call request
\* that itself failed; a failure after the tool returned adds no such record:
C27_FailureRecordMeansToolFailed ==
    [][Len(chat_toolsUsed') > Len(chat_toolsUsed)
       /\ ~chat_toolsUsed'[Len(chat_toolsUsed')].success
       => chat_toolOutcome' = "error"]_vars

\* the names of a list of records
Names(toolsUsed) == {toolsUsed[i].name : i \in 1..Len(toolsUsed)}

\* a list without repeats
NoRepeats(list) == \A i, j \in 1..Len(list) : list[i] = list[j] => i = j

\* C15: toolsUsed grows only by one record at its end, named after the
\* function just invoked; a return that carries toolsUsed carries all the
\* records, toolsList holds each of their names once and toolsExecuted is
\* their number.
C15_ToolsUsedInOrderToolsListUnique ==
    [][/\ chat_toolsUsed' # chat_toolsUsed
          => /\ Len(chat_toolsUsed') = Len(chat_toolsUsed) + 1
             /\ SubSeq(chat_toolsUsed', 1, Len(chat_toolsUsed)) = chat_toolsUsed
             /\ Last(chat_toolsUsed').name = chat_message.function_call
       /\ chat_return'.hasToolsUsed
          => /\ chat_return'.toolsUsed = chat_toolsUsed'
             /\ chat_return'.debuggingInfo.toolsExecuted = Len(chat_toolsUsed')
             /\ {chat_return'.debuggingInfo.toolsList[i] :
                    i \in 1..Len(chat_return'.debuggingInfo.toolsList)}
                  = Names(chat_toolsUsed')
             /\ NoRepeats(chat_return'.debuggingInfo.toolsList)]_vars

\* a turn that ended after three invocations of two tools
C15_Witness ==
    /\ chat_pc = "responded"
    /\ chat_return.hasToolsUsed
    /\ Len(chat_toolsUsed) = 3
    /\ chat_toolsUsed[1].name = chat_toolsUsed[2].name
    /\ chat_return.debuggingInfo.toolsList = <<"analyzeEmail", "draftReply">>

\* C19: every 200 response of /chat has a string in its response field.
C19_ChatResponseFieldIsString ==
    chat_pc = "responded" /\ chat_http.status = 200 => chat_http.response = "string"

\* the tools/call request of the stream returned a result without the action
\* protocol
PlainToolResult ==
    /\ st_toolsUsed # <<>>
    /\ st_toolsUsed[1].success
    /\ \A i \in 1..Len(st_events) : st_events[i] # "action_protocol"

\* the last two events written
EventsEndWith(first, second) ==
    /\ Len(st_events) >= 2
    /\ st_events[Len(st_events) - 1] = first
    /\ st_events[Len(st_events)] = second

ActionProtocolIsTerminal ==
    \A i \in 1..Len(st_events) :
        st_events[i] = "action_protocol"
        => i = Len(st_events) - 1 /\ st_events[Len(st_events)] = "done"

\* every content event comes before the complete event
ContentBeforeComplete ==
    \A i, j \in 1..Len(st_events) :
        st_events[i] = "complete" /\ st_events[j] = "content" => j < i

\* C13: an action_protocol event is followed by done alone; after a tool
\* result without the action protocol the stream ends with the follow-up
\* content events, then complete, then done, unless something was thrown on
\* the way, and then it ends with error, then done, and without complete.
C13_ActionProtocolTerminalElseComplete ==
    /\ ActionProtocolIsTerminal
    /\ ContentBeforeComplete
    /\ StreamClosed /\ PlainToolResult
       => IF st_thrown = 0
          THEN EventsEndWith("complete", "done")
          ELSE /\ EventsEndWith("error", "done")
               /\ \A i \in 1..Len(st_events) : st_events[i] # "complete"

\* a plain tool result, a follow-up content event, complete, done
C13_Witness ==
    /\ StreamClosed /\ PlainToolResult
    /\ EventsEndWith("complete", "done")
    /\ \E i, j \in 1..Len(st_events) :
          /\ st_events[i] = "function_call_complete"
          /\ st_events[j] = "content"
          /\ i < j

\* C13 as stated: after a tool result without the action protocol the
\* follow-up content events are always followed by a complete event.
C13_PlainResultAlwaysCompletes ==
    /\ ActionProtocolIsTerminal
    /\ StreamClosed /\ PlainToolResult => EventsEndWith("complete", "done")

(* =============== claims on the two orchestrators together ============= *)

BothEnded == eq_script.chosen /\ chat_pc = "responded" /\ st_pc = "closed"

\* how the /chat turn ended: the error string, an action envelope, a text
ChatOutcome ==
    IF chat_return.kind = "string" THEN "error"
    ELSE IF chat_return.shouldPerformAction = "true" THEN "action"
    ELSE "text"

\* how the stream ended: the event written before done
StreamOutcome ==
    CASE st_events[Len(st_events) - 1] = "error" -> "error"
      [] st_events[Len(st_events) - 1] = "action_protocol" -> "action"
      [] st_events[Len(st_events) - 1] = "complete" -> "text"

\* the success flags of the tool invocations recorded, in order
Successes(toolsUsed) == [i \in 1..Len(toolsUsed) |-> toolsUsed[i].success]

\* C11: given the same LLM responses and tool results, the stream makes the
\* same tool invocations as the /chat turn and ends in the same outcome.
C11_StreamMatchesChat ==
    BothEnded
    => /\ StreamOutcome = ChatOutcome
       /\ Successes(st_toolsUsed) = Successes(chat_toolsUsed)

\* the payloads of the content events put together: the LLM's text, or the
\* empty string when no content event was written
StreamContent ==
    IF \E i \in 1..Len(st_events) : st_events[i] = "content"
    THEN eq_script.llm[1].content
    ELSE "empty"

\* C12: when the LLM output holds no function call, the content events of
\* /chat/stream put together equal the response field of /chat.
C12_StreamContentEqualsChatResponse ==
    BothEnded /\ eq_script.llm[1].function_call = "none"
    => /\ chat_http.response = "string"
       /\ chat_return.content = StreamContent

(* ===================== claims on the email tools ====================== *)

AnalyzeEmailReturned == tc_pc = "returned" /\ tc_call.name = "analyzeEmail"

\* C16: whatever callLLM produced, the analysis analyzeEmail returns has its
\* priority, category, sentiment and tone among the listed values; a value
\* of the LLM's JSON that is listed is kept, any other becomes the default.
C16_AnalysisFieldsWithinEnums ==
    AnalyzeEmailReturned
    => /\ tc_result.analysis.priority \in Priorities
       /\ tc_result.analysis.category \in Categories
       /\ tc_result.analysis.sentiment \in Sentiments
       /\ tc_result.analysis.tone \in Tones
       /\ tc_llm.kind = "json" /\ ~tc_llm.analysis.isNull
          => /\ tc_result.analysis.priority
                   = IF tc_llm.analysis.priority \in Priorities
                     THEN tc_llm.analysis.priority ELSE "low"
             /\ tc_result.analysis.category
                   = IF tc_llm.analysis.category \in Categories
                     THEN tc_llm.analysis.category ELSE "other"
             /\ tc_result.analysis.sentiment
                   = IF tc_llm.analysis.sentiment \in Sentiments
                     THEN tc_llm.analysis.sentiment ELSE "neutral"
             /\ tc_result.analysis.tone
                   = IF tc_llm.analysis.tone \in Tones
                     THEN tc_llm.analysis.tone ELSE "neutral"

\* a JSON reply with one listed value, one unlisted and two missing
C16_Witness ==
    /\ AnalyzeEmailReturned
    /\ tc_llm.kind = "json"
    /\ tc_llm.analysis.priority = "high"
    /\ tc_llm.analysis.category = "unlisted"
    /\ tc_llm.analysis.sentiment = "absent"
    /\ tc_llm.analysis.tone = "absent"
    /\ tc_result.analysis = Analysis(FALSE, "high", "other", "neutral", "neutral")

\* C17: a tools/call of an email tool that returns carries
\* shouldPerformAction true and an actionToPerform named after the tool.
C17_ReturnedCallCarriesOwnAction ==
    tc_pc = "returned"
    => /\ tc_result.shouldPerformAction = "true"
       /\ tc_result.action = tc_call.name

\* the EmailContent shape: subject, sender, recipients and body of the right
\* type, bodyHtml a string, null or left out
EmailContentShape(email) ==
    /\ email.isObject
    /\ email.subject = "ok"
    /\ email.sender = "ok"
    /\ email.recipients = "ok"
    /\ email.body = "ok"
    /\ email.bodyHtml \in {"ok", "null", "absent"}

\* C18: the email rewriteReply returns in actionToPerform.parameters has the
\* EmailContent shape, whether the LLM's text parsed as JSON or not.
C18_RewrittenEmailHasEmailContentShape ==
    tc_pc = "returned" /\ tc_call.name = "rewriteReply"
    => EmailContentShape(tc_result.email)

(* ======================== claims on the profiles ====================== *)

\* C24: resetProfile of a userId that has a profile returns, and returns
\* every preference section at its defaults.
C24_ResetOfExistingProfileGivesDefaults ==
    pf_result.op = "reset" /\ pf_result.existed
    => /\ pf_result.ok
       /\ pf_result.preferences = AllSections("default")

(* =================== claims on concurrent chat turns ================== *)

\* C25: in every interleaving of two chat turns, a finished turn's message
\* history, toolsUsed and final outcome are those of the same turn run alone:
C25_TurnsAreIndependent ==
    \A t \in DOMAIN cc_turn :
        cc_turn[t].pc = "done"
        => [messages |-> cc_turn[t].messages,
            toolsUsed |-> cc_turn[t].toolsUsed,
            outcome |-> cc_turn[t].outcome] = TurnAlone(cc_turn[t].call)

(* ======================= claims on the stream's end =================== *)

TerminalEvents == {"complete", "action_protocol", "error"}

\* the terminal events among the first n events
TerminalsWithin(events, n) == {i \in 1..n : events[i] \in TerminalEvents}

\* C26: in every stream, each done event has exactly one of complete,
\* action_protocol and error among the events written before it:
C26_OneTerminalEventBeforeDone ==
    \A i \in 1..Len(st_events) :
        st_events[i] = "done"
        => Cardinality(TerminalsWithin(st_events, i - 1)) = 1

\* a stream whose tool returned a plain result and whose follow-up failed:
\* function_call_complete, then error as the one terminal event, then done
C26_Witness ==
    /\ st_pc = "closed"
    /\ Len(st_toolsUsed) = 2
    /\ EventsEndWith("error", "done")
    /\ \E i \in 1..Len(st_events) : st_events[i] = "function_call_complete"

HasEvent(type) == \E i \in 1..Len(st_events) : st_events[i] = type

\* C28: in a stream that ended without any exception, a function_call_start
\* event is followed by function_call_complete and the named tool was
\* invoked (it has a record in toolsUsed), also when no arguments text came:
C28_StartedCallCompletesAndRuns ==
    st_pc = "closed" /\ st_thrown = 0 /\ HasEvent("function_call_start")
    => /\ HasEvent("function_call_complete")
       /\ st_toolsUsed # <<>>

(* ================= claims on tools/call of the server ================= *)

\* C30: a tools/call whose arguments the advertised input schema accepts
\* reaches the handler with arguments the handler's own parse accepts, and
\* is not answered with the error of a failed parse:
C30_AdvertisedArgumentsReachHandler ==
    /\ rpc_pc # "idle"
    /\ rpc_request.name \in EmailTools
    /\ inputSchemaAccepts(rpc_request.name, rpc_request.args)
    => /\ handlerAccepts(rpc_request.name, rpc_mapped)
       /\ rpc_response.thrownBy # "parse"

====
